---- MODULE Spec2Model ----
(***************************************************************************)
(* A model of the tzpay payout server (internal/cmd/serv.go) and of the    *)
(* gotezos batch-payment engine (CreateBatchPayment, forgeOperationBytes). *)
(*                                                                         *)
(*   Spec       the server process: newServer, server.start, the polling   *)
(*              goroutine and the payout queue's worker                    *)
(*   FairSpec   Spec with the goroutines scheduled fairly                  *)
(*   BatchSpec  one call of GoTezos.CreateBatchPayment                     *)
(***************************************************************************)
EXTENDS Integers, Sequences, FiniteSets, TLC

\* ------------------------------------------------------------------ bounds

\* Cycle numbers a head query can report are 0..MaxCycle.
MaxCycle == 3

\* A CreateBatchPayment call gets at most MaxPayments payments.
MaxPayments == 5

\* The on-chain counter getAddressCounter returns is 0 or MaxCounter.
MaxCounter == 8

\* The size bound of a batch: splitPaymentIntoBatches puts at most BatchSize
\* payments in a batch.
BatchSize == 2

\* ------------------------------------------------------------- the server

VARIABLES
    proc,          \* "running" | "exited" (log.Fatal) | "panicked" (nil dereference)
    pc,            \* position of the main path: "newServer" | "start" | "loop"
    currentCycle,  \* the polling goroutine's currentCycle
    fifo,          \* the payout queue's pending payouts, oldest first
    started,       \* queue.Start() has been called
    processing,    \* the payouts the queue's worker is handling
    taken,         \* history: the payouts the worker took off the queue, in order
    notified,      \* history: the notifier's calls, [payout, outcome], in order
    enqLog,        \* history: the Enqueue calls, in order
    observed       \* history: the cycles returned by successful Head() calls

VARIABLES
    bpc,                  \* position in CreateBatchPayment
    payments,             \* its argument payments
    blockHead,            \* blockHead, here the hash of the head GetChainHead returned
    onChain,              \* the counter getAddressCounter returned
    counter,              \* counter
    newCounter,           \* newCounter of batch k
    batches,              \* batches
    k,                    \* the loop index k, counted from 1
    operationSignatures,  \* operationSignatures
    operationBytes,       \* operationBytes of batch k
    operationContents,    \* operationContents of batch k
    edsig,                \* edsig of batch k
    requests,             \* history: the requests sent to the node, in order
    retErr                \* the returned error is not nil (read when bpc = "done")

batchVars == <<bpc, payments, blockHead, onChain, counter, newCounter, batches, k,
               operationSignatures, operationBytes, operationContents, edsig,
               requests, retErr>>

VARIABLES
    wpc,       \* "idle" | "created" | "imported" | "reimported"
    wArgs,     \* address, public and secret of the ImportWallet call
    wCreated,  \* what CreateWallet returned
    wRet       \* what ImportWallet returned, or that it panicked

walletVars == <<wpc, wArgs, wCreated, wRet>>

servVars == <<proc, pc, currentCycle, fifo, started, processing, taken, notified,
              enqLog, observed>>

\* A nil *Block (no cycle number is -1).
NilBlock == -1

\* A local of CreateBatchPayment that has not been assigned.
Nil == "nil"

\* A string is the sequence of its characters; a piece of text the model does not
\* look into is one element.
EmptyString == <<>>

\* The Conts a request carries before any is built.
NoConts == [Contents |-> <<>>, Branch |-> Nil]

Cycles == 0..MaxCycle

\* What Head() may return beside a nil error: a block, here its cycle.
OkBlocks == Cycles

\* What Head() may return beside a non-nil error: no block, the zero block
\* (cycle 0) or a partly decoded one.
FailBlocks == {NilBlock} \cup Cycles

Outcomes == {"submitted", "failed"}

vars == <<servVars, batchVars, walletVars>>

\* No CreateBatchPayment call is in progress.
BatchIdle ==
    /\ bpc = "idle"
    /\ payments = <<>>
    /\ blockHead = Nil
    /\ onChain = 0
    /\ counter = 0
    /\ newCounter = 0
    /\ batches = <<>>
    /\ k = 0
    /\ operationSignatures = <<>>
    /\ operationBytes = EmptyString
    /\ operationContents = NoConts
    /\ edsig = Nil
    /\ requests = <<>>
    /\ retErr = FALSE

\* The text of no string, for a value not assigned yet: a string is its first
\* four characters (head), its length (len) and the bytes it decodes to as
\* base58-with-checksum (prefix, payload).
NoStr == [head |-> "", len |-> 0, prefix |-> "", payload |-> <<>>]

\* var wallet Wallet: the zero Wallet.
EmptyWallet ==
    [Address |-> NoStr, Mnemonic |-> "", Seed |-> <<>>,
     Kp |-> [PublicKey |-> <<>>, SecretKey |-> <<>>], Sk |-> NoStr, Pk |-> NoStr]

\* What a wallet function returned: status is "ok", "error" (err says which) or
\* "panic" (the call did not return).
Ret(status, err, wallet) == [status |-> status, err |-> err, wallet |-> wallet]

\* No wallet function has been called.
WalletIdle ==
    /\ wpc = "idle"
    /\ wArgs = [address |-> NoStr, public |-> NoStr, secret |-> NoStr]
    /\ wCreated = Ret("none", "", EmptyWallet)
    /\ wRet = Ret("none", "", EmptyWallet)

\* The process enters ServCommand's Run: nothing is constructed yet.
ServInit ==
    /\ proc = "running"
    /\ pc = "newServer"
    /\ currentCycle = 0
    /\ fifo = <<>>
    /\ started = FALSE
    /\ processing = {}
    /\ taken = <<>>
    /\ notified = <<>>
    /\ enqLog = <<>>
    /\ observed = {}

\* payout.New(s.runner.config, currentCycle, true, s.runner.verbose): the Payout of
\* a cycle.
NewPayout(cycle) == [cycle |-> cycle]

\* The Payout Queue's enqueue: appends to the FIFO.
Enqueue(q, payout) == Append(q, payout)

\* A mutant of CanEnqueue: enqueue hands the payout over to an idle worker only.
CanEnqueueIdle(q, busy) == busy = {}

\* The Payout Queue's enqueue never waits, whatever the worker is doing.
CanEnqueue(q, busy) == TRUE

\* A mutant of WorkerFree: a payout is taken while another is being handled.
WorkerAlwaysFree(busy) == TRUE

\* The worker may take the next payout: it handles one payout at a time.
WorkerFree(busy) == busy = {}

\* A mutant of Requeue: a failed payout is put back on the queue.
RequeueFailed(q, payout, outcome) ==
    IF outcome = "failed" THEN Append(q, payout) ELSE q

\* What the worker does with a payout it finished: it reports the outcome, once,
\* and never puts the payout back.
Requeue(q, payout, outcome) == q

\* The worker goes on after a payout, whatever its outcome.
WorkerAlive(log) == TRUE

\* A mutant of Rollover: != for <.
RolloverNeq(cur, cyc) == cur # cyc

\* A mutant of Rollover: <= for <.
RolloverLeq(cur, cyc) == cur <= cyc

\* if currentCycle < block.Metadata.Level.Cycle
Rollover(cur, cyc) == cur < cyc

\* The cycle of the Payout a rollover builds: the recorded one.
PayoutCycle(cur, cyc) == cur

\* currentCycle = block.Metadata.Level.Cycle
NextCycle(cur, cyc) == cyc

\* A mutant of PayoutNewFatal: the error of payout.New is not looked at.
PayoutNewIgnored(newOk) == FALSE

\* payout, err := payout.New(...); if err != nil { log ... Fatal(...) }
PayoutNewFatal(newOk) == ~newOk

\* A mutant of QueueStart: queue.Start() is left out.
QueueStartMissing == FALSE

\* queue.Start(): the queue's worker is started.
QueueStart == TRUE

\* if err != nil { log ... Error(...) }: the error is logged and the tick goes on
\* to read block.
TickGoesOn(err) == TRUE

\* newServer, called by ServCommand's Run: a failure is fatal, otherwise the queue
\* is created and its worker started.
NewServer(cfgOk, rpcOk) ==
    /\ proc = "running" /\ pc = "newServer"
    /\ IF cfgOk /\ rpcOk
         THEN /\ started' = QueueStart
              /\ pc' = "start"
              /\ proc' = proc
         ELSE /\ proc' = "exited"
              /\ UNCHANGED <<started, pc>>
    /\ UNCHANGED <<currentCycle, fifo, processing, taken, notified, enqLog, observed>>
    /\ UNCHANGED <<batchVars, walletVars>>

\* server.start up to the polling loop: the startup Head() returns (blk, err),
\* an error is logged, and the goroutine's first statement reads the block:
\* currentCycle := block.Metadata.Level.Cycle.
StartHead(err, blk) ==
    /\ proc = "running" /\ pc = "start"
    /\ observed' = IF err THEN observed ELSE observed \cup {blk}
    /\ IF blk = NilBlock
         THEN /\ proc' = "panicked"
              /\ UNCHANGED <<pc, currentCycle>>
         ELSE /\ currentCycle' = blk
              /\ pc' = "loop"
              /\ proc' = proc
    /\ UNCHANGED <<fifo, started, processing, taken, notified, enqLog>>
    /\ UNCHANGED <<batchVars, walletVars>>

\* One iteration of for range ticker.C: Head() returns (blk, err); newOk is
\* whether payout.New succeeds when the tick calls it.
Tick(err, blk, newOk) ==
    /\ proc = "running" /\ pc = "loop"
    /\ observed' = IF err THEN observed ELSE observed \cup {blk}
    /\ IF err /\ ~TickGoesOn(err)
         THEN UNCHANGED <<proc, currentCycle, fifo, enqLog>>
         ELSE IF blk = NilBlock
         THEN /\ proc' = "panicked"
              /\ UNCHANGED <<currentCycle, fifo, enqLog>>
         ELSE IF ~Rollover(currentCycle, blk)
         THEN UNCHANGED <<proc, currentCycle, fifo, enqLog>>
         ELSE IF PayoutNewFatal(newOk)
         THEN /\ proc' = "exited"
              /\ UNCHANGED <<currentCycle, fifo, enqLog>>
         ELSE /\ CanEnqueue(fifo, processing)
              /\ fifo' = Enqueue(fifo, NewPayout(PayoutCycle(currentCycle, blk)))
              /\ enqLog' = Append(enqLog,
                     [payout |-> NewPayout(PayoutCycle(currentCycle, blk)),
                      busy |-> processing # {},
                      ntaken |-> Len(taken)])
              /\ currentCycle' = NextCycle(currentCycle, blk)
              /\ proc' = proc
    /\ UNCHANGED <<pc, started, processing, taken, notified>>
    /\ UNCHANGED <<batchVars, walletVars>>

\* The queue's worker takes the oldest pending payout.
WorkerTake ==
    /\ proc = "running" /\ started
    /\ WorkerAlive(notified)
    /\ WorkerFree(processing)
    /\ fifo # <<>>
    /\ processing' = processing \cup {Head(fifo)}
    /\ taken' = Append(taken, Head(fifo))
    /\ fifo' = Tail(fifo)
    /\ UNCHANGED <<proc, pc, currentCycle, started, notified, enqLog, observed>>
    /\ UNCHANGED <<batchVars, walletVars>>

\* The worker finishes a payout and reports its outcome through the notifier.
WorkerFinish(payout, outcome) ==
    /\ proc = "running" /\ started
    /\ payout \in processing
    /\ processing' = processing \ {payout}
    /\ notified' = Append(notified, [payout |-> payout, outcome |-> outcome])
    /\ fifo' = Requeue(fifo, payout, outcome)
    /\ UNCHANGED <<proc, pc, currentCycle, started, taken, enqLog, observed>>
    /\ UNCHANGED <<batchVars, walletVars>>

Init == ServInit /\ BatchIdle /\ WalletIdle

Next ==
    \/ \E cfgOk \in BOOLEAN, rpcOk \in BOOLEAN : NewServer(cfgOk, rpcOk)
    \/ \E blk \in OkBlocks : StartHead(FALSE, blk)
    \/ \E blk \in FailBlocks : StartHead(TRUE, blk)
    \/ \E blk \in OkBlocks, newOk \in BOOLEAN : Tick(FALSE, blk, newOk)
    \/ \E blk \in FailBlocks, newOk \in BOOLEAN : Tick(TRUE, blk, newOk)
    \/ WorkerTake
    \/ \E payout \in processing, outcome \in Outcomes : WorkerFinish(payout, outcome)

Spec == Init /\ [][Next]_vars

\* The goroutines are scheduled fairly: the worker takes a pending payout and
\* finishes the payout it is handling.
FairSpec ==
    /\ Spec
    /\ WF_vars(WorkerTake)
    /\ WF_vars(\E payout \in processing, outcome \in Outcomes : WorkerFinish(payout, outcome))

\* ---------------------------------------------------- CreateBatchPayment

\* The payments a call may get: two destinations; amounts above, at and below 0.
Payment ==
    {[Address |-> "tz1a", Amount |-> 1], [Address |-> "tz1b", Amount |-> 2],
     [Address |-> "tz1a", Amount |-> 0], [Address |-> "tz1b", Amount |-> -1]}

\* The sequences over S of length at most n.
SeqsUpTo(S, n) == UNION {[1..m -> S] : m \in 0..n}

\* blockHead.Hash of the heads GetChainHead may return.
Hashes == {"BLa", "BLb"}

\* The counters getAddressCounter may return.
Counters == {0, MaxCounter}

\* wallet.Address
WalletAddress == "tz1src"

\* paymentFee and gaslimit of the call.
PaymentFee == 1420
GasLimit == 10600

Digit(d) == <<"0", "1", "2", "3", "4", "5", "6", "7", "8", "9">>[d + 1]

\* strconv.Itoa: the decimal digits, after a minus sign for a negative number.
RECURSIVE Itoa(_)
Itoa(n) ==
    IF n < 0 THEN <<"-">> \o Itoa(-n)
    ELSE IF n < 10 THEN <<Digit(n)>>
    ELSE Itoa(n \div 10) \o <<Digit(n % 10)>>

\* strconv.FormatFloat(roundPlus(amount, 0), 'f', -1, 64), for the whole amounts
\* of Payment: the decimal digits.
FormatAmount(amount) == Itoa(amount)

\* splitPaymentIntoBatches: consecutive batches of at most BatchSize payments, in
\* input order.
splitPaymentIntoBatches(ps) ==
    [b \in 1..((Len(ps) + BatchSize - 1) \div BatchSize) |->
        SubSeq(ps, (b - 1) * BatchSize + 1,
               IF b * BatchSize < Len(ps) THEN b * BatchSize ELSE Len(ps))]

\* A mutant of KeepPayment: the payments to tz1a are dropped.
KeepPaymentNotFirstPayee(payment) == payment.Amount > 0 /\ payment.Address # "tz1a"

\* A mutant of KeepPayment: >= for >.
KeepPaymentGeq(payment) == payment.Amount >= 0

\* if batch[k].Amount > 0
KeepPayment(payment) == payment.Amount > 0

\* The TransOp forgeOperationBytes builds of a payment.
TransOp(payment, cnt) ==
    [Kind |-> "transaction",
     Source |-> WalletAddress,
     Fee |-> Itoa(PaymentFee),
     GasLimit |-> Itoa(GasLimit),
     StorageLimit |-> <<"0">>,
     Amount |-> FormatAmount(payment.Amount),
     Destination |-> payment.Address,
     Counter |-> Itoa(cnt)]

\* forgeOperationBytes's loop over batch from index i on: combinedOps and counter.
RECURSIVE ForgeLoop(_, _, _, _)
ForgeLoop(batch, i, combinedOps, cnt) ==
    IF i > Len(batch) THEN [combinedOps |-> combinedOps, counter |-> cnt]
    ELSE IF KeepPayment(batch[i])
    THEN ForgeLoop(batch, i + 1, Append(combinedOps, TransOp(batch[i], cnt)), cnt + 1)
    ELSE ForgeLoop(batch, i + 1, combinedOps, cnt)

\* A mutant of ForgeContents: contents.Branch = branchHash is left out.
ForgeContentsNoBranch(branchHash, cnt, batch) ==
    LET r == ForgeLoop(batch, 1, <<>>, cnt)
    IN  [contents |-> [Contents |-> r.combinedOps, Branch |-> Nil],
         counter |-> r.counter]

\* forgeOperationBytes up to its request: the contents and the next counter.
ForgeContents(branchHash, cnt, batch) ==
    LET r == ForgeLoop(batch, 1, <<>>, cnt)
    IN  [contents |-> [Contents |-> r.combinedOps, Branch |-> branchHash],
         counter |-> r.counter]

\* The node's answer to a forge request: the forged bytes of the contents, in hex.
Forged(contents) == <<[forged |-> contents]>>

\* signOperationBytes: the encoded signature of the operation bytes.
SignOperationBytes(bytes) == [edsig |-> bytes]

\* decodeSignature(edsig)[10:]: the raw signature, in hex.
DecodedSignature(sig) == <<[rawsig |-> sig.edsig]>>

\* fullOperation := operationBytes + decodedSignature
FullOperation(bytes, sig) == bytes \o DecodedSignature(sig)

\* A mutant of CounterAfterBatch: the counter forgeOperationBytes returned is dropped.
CounterAfterBatchKept(cnt, next) == cnt

\* counter = newCounter
CounterAfterBatch(cnt, next) == next

\* A mutant of PreApplyFailed: the error of preApplyOperations is not looked at.
PreApplyFailedNever(ok) == FALSE

\* if err := gt.preApplyOperations(...); err != nil
PreApplyFailed(ok) == ~ok

\* A request sent to the node.
Request(kind, ok, branch, contents) ==
    [kind |-> kind, ok |-> ok, branch |-> branch, contents |-> contents]

\* return operationSignatures, err
ReturnErr ==
    /\ bpc' = "done"
    /\ retErr' = TRUE

\* blockHead, err := gt.GetChainHead()
GetChainHead(ok, hash) ==
    /\ bpc = "head"
    /\ requests' = Append(requests, Request("head", ok, IF ok THEN hash ELSE Nil, NoConts))
    /\ IF ok
         THEN /\ blockHead' = hash
              /\ bpc' = "counter"
              /\ retErr' = retErr
         ELSE /\ ReturnErr
              /\ blockHead' = blockHead
    /\ UNCHANGED <<payments, onChain, counter, newCounter, batches, k,
                   operationSignatures, operationBytes, operationContents, edsig>>
    /\ UNCHANGED <<servVars, walletVars>>

\* counter, err := gt.getAddressCounter(wallet.Address); counter++; the split into
\* batches and the make of operationSignatures.
GetAddressCounter(ok, c) ==
    /\ bpc = "counter"
    /\ requests' = Append(requests, Request("counter", ok, Nil, NoConts))
    /\ IF ok
         THEN /\ onChain' = c
              /\ counter' = c + 1
              /\ batches' = splitPaymentIntoBatches(payments)
              /\ operationSignatures' =
                     [i \in 1..Len(splitPaymentIntoBatches(payments)) |-> EmptyString]
              /\ k' = 1
              /\ IF Len(splitPaymentIntoBatches(payments)) = 0
                   THEN bpc' = "done" /\ retErr' = FALSE
                   ELSE bpc' = "forge" /\ retErr' = retErr
         ELSE /\ ReturnErr
              /\ UNCHANGED <<onChain, counter, batches, operationSignatures, k>>
    /\ UNCHANGED <<payments, blockHead, newCounter, operationBytes,
                   operationContents, edsig>>
    /\ UNCHANGED <<servVars, walletVars>>

\* The call of forgeOperationBytes for batch k: postOk is whether the forge
\* request succeeds, jsonOk whether its answer decodes.
Forge(postOk, jsonOk) ==
    /\ bpc = "forge"
    /\ LET r == ForgeContents(blockHead, counter, batches[k])
       IN  /\ requests' = Append(requests,
                  Request("forge", postOk /\ jsonOk, blockHead, r.contents))
           /\ operationContents' = r.contents
           /\ newCounter' = r.counter
           /\ IF postOk /\ jsonOk
                THEN /\ operationBytes' = Forged(r.contents)
                     /\ bpc' = "sign"
                     /\ retErr' = retErr
                ELSE /\ operationBytes' = EmptyString
                     /\ ReturnErr
    /\ UNCHANGED <<payments, blockHead, onChain, counter, batches, k,
                   operationSignatures, edsig>>
    /\ UNCHANGED <<servVars, walletVars>>

\* counter = newCounter, and the call of signOperationBytes: signOk is whether the
\* operation bytes decode as hex and the hash takes them.
Sign(signOk) ==
    /\ bpc = "sign"
    /\ counter' = CounterAfterBatch(counter, newCounter)
    /\ IF signOk
         THEN /\ edsig' = SignOperationBytes(operationBytes)
              /\ bpc' = "preapply"
              /\ retErr' = retErr
         ELSE /\ ReturnErr
              /\ edsig' = edsig
    /\ UNCHANGED <<payments, blockHead, onChain, newCounter, batches, k,
                   operationSignatures, operationBytes, operationContents, requests>>
    /\ UNCHANGED <<servVars, walletVars>>

\* The call of preApplyOperations for batch k, the store of fullOperation and the
\* step to the next batch, or the return after the last.
PreApply(ok) ==
    /\ bpc = "preapply"
    /\ requests' = Append(requests, Request("preapply", ok, blockHead, operationContents))
    /\ IF PreApplyFailed(ok)
         THEN /\ ReturnErr
              /\ UNCHANGED <<operationSignatures, k>>
         ELSE /\ operationSignatures' =
                     [operationSignatures EXCEPT ![k] = FullOperation(operationBytes, edsig)]
              /\ k' = k + 1
              /\ IF k = Len(batches)
                   THEN bpc' = "done" /\ retErr' = FALSE
                   ELSE bpc' = "forge" /\ retErr' = retErr
    /\ UNCHANGED <<payments, blockHead, onChain, counter, newCounter, batches,
                   operationBytes, operationContents, edsig>>
    /\ UNCHANGED <<servVars, walletVars>>

\* A call of CreateBatchPayment with some payments begins.
BatchInit ==
    /\ ServInit
    /\ WalletIdle
    /\ bpc = "head"
    /\ payments \in SeqsUpTo(Payment, MaxPayments)
    /\ blockHead = Nil
    /\ onChain = 0
    /\ counter = 0
    /\ newCounter = 0
    /\ batches = <<>>
    /\ k = 0
    /\ operationSignatures = <<>>
    /\ operationBytes = EmptyString
    /\ operationContents = NoConts
    /\ edsig = Nil
    /\ requests = <<>>
    /\ retErr = FALSE

BatchNext ==
    \/ \E ok \in BOOLEAN, hash \in Hashes : GetChainHead(ok, hash)
    \/ \E ok \in BOOLEAN, c \in Counters : GetAddressCounter(ok, c)
    \/ \E postOk \in BOOLEAN, jsonOk \in BOOLEAN : Forge(postOk, jsonOk)
    \/ \E signOk \in BOOLEAN : Sign(signOk)
    \/ \E ok \in BOOLEAN : PreApply(ok)

BatchSpec == BatchInit /\ [][BatchNext]_vars

\* ------------------------------------------------------------ the wallets

\* A byte string is the sequence of its blocks: a secret key is two blocks of 32
\* bytes (seed, public key), a seed or a public key one block, a 20-byte hash one.
\* A block is a tuple saying what it was computed from.

\* The lengths of the secrets ImportWallet accepts, and of the tag it looks at.
FullKeyLen == 98
SeedKeyLen == 54
TagLen == 4

\* The mnemonics and passwords CreateWallet is called with.
Mnemonics == {"", "abandon"}
Passwords == {"", "pw"}

\* pbkdf2.Key([]byte(mnemonic), []byte("mnemonic"+password), 2048, 64, sha512.New):
\* 64 bytes, determined by the mnemonic and the password.
Kdf(mnemonic, password) ==
    << <<"kdf1", mnemonic, password>>, <<"kdf2", mnemonic, password>> >>

\* signSecretKey.Seed(): the first 32 bytes of the secret key.
SignSeed(bytes) == <<bytes[1]>>

\* The ed25519 public key of a seed.
PublicOf(seedBlock) == <<"pub">> \o seedBlock

\* sodium.SeedSignKP: the key pair of a seed; the secret key is the seed followed
\* by the public key.
SeedSignKP(seed) ==
    [PublicKey |-> <<PublicOf(seed[1])>>,
     SecretKey |-> <<seed[1], PublicOf(seed[1])>>]

\* sodium.NewGenericHash(20) over the bytes.
GenericHash20(bytes) == << <<"h20">> \o bytes[1] >>

\* The first characters of the text b58cencode gives under a prefix.
HeadOf(prefix) ==
    CASE prefix = "edsk" -> "edsk"
      [] prefix = "edsk2" -> "edsk"
      [] prefix = "edpk" -> "edpk"
      [] prefix = "tz1" -> "tz1"
      [] OTHER -> ""

\* The length of the text b58cencode gives: that of a secret key under edsk, of a
\* seed under edsk2 or of a public key under edpk; an address is shorter.
EncLen(prefix, payload) ==
    CASE prefix = "edsk" /\ Len(payload) = 2 -> FullKeyLen
      [] prefix \in {"edsk2", "edpk"} /\ Len(payload) = 1 -> SeedKeyLen
      [] OTHER -> SeedKeyLen - TagLen

\* b58cencode(payload, prefix): the base58-with-checksum text of prefix and payload.
b58cencode(payload, prefix) ==
    [head |-> HeadOf(prefix), len |-> EncLen(prefix, payload),
     prefix |-> prefix, payload |-> payload]

\* b58cdecode(text, prefix): the bytes of the text, without the prefix.
b58cdecode(text, prefix) == text.payload

\* generatePublicHash: the address of the key pair's public key, or an error when
\* the hash did not take 32 bytes.
GeneratePublicHash(kp) ==
    IF Len(kp.PublicKey) # 1
      THEN [ok |-> FALSE, address |-> NoStr]
      ELSE [ok |-> TRUE, address |-> b58cencode(GenericHash20(kp.PublicKey), "tz1")]

\* CreateWallet(mnemonic, password)
CreateWallet(mnemonic, password) ==
    LET seed == Kdf(mnemonic, password)
        signKP == SeedSignKP(SignSeed(seed))
        generated == GeneratePublicHash(signKP)
    IN  IF ~generated.ok
          THEN Ret("error", "hash", EmptyWallet)
          ELSE Ret("ok", "",
                   [Address |-> generated.address,
                    Mnemonic |-> mnemonic,
                    Seed |-> seed,
                    Kp |-> signKP,
                    Sk |-> b58cencode(signKP.SecretKey, "edsk"),
                    Pk |-> b58cencode(signKP.PublicKey, "edpk")])

\* A mutant of PublicHalf: the first 32 bytes for the last.
PublicHalfFirst(decodedSecretKey) == <<decodedSecretKey[1]>>

\* publicKey := decodedSecretKey[32:]
PublicHalf(decodedSecretKey) == Tail(decodedSecretKey)

\* ImportWallet from wallet.Kp = signKP on: the address and the public key of the
\* key pair are computed and compared with the ones given.
ImportChecks(address, public, signKP, wallet) ==
    LET w1 == [wallet EXCEPT !.Kp = signKP]
        generated == GeneratePublicHash(signKP)
        w2 == [w1 EXCEPT !.Address = generated.address]
        generatedPublicKey == b58cencode(signKP.PublicKey, "edpk")
    IN  IF ~generated.ok THEN Ret("error", "hash", w1)
        ELSE IF generated.address # address THEN Ret("error", "address", w1)
        ELSE IF generatedPublicKey # public THEN Ret("error", "public", w2)
        ELSE Ret("ok", "", [w2 EXCEPT !.Pk = generatedPublicKey])

\* ImportWallet(address, public, secret)
ImportWallet(address, public, secret) ==
    IF secret.len < TagLen
      THEN Ret("panic", "slice bounds out of range", EmptyWallet)
    ELSE IF secret.head # "edsk" \/ (secret.len # FullKeyLen /\ secret.len # SeedKeyLen)
      THEN Ret("error", "format", EmptyWallet)
    ELSE IF secret.len = FullKeyLen
      THEN LET decodedSecretKey == b58cdecode(secret, "edsk")
               signKP == [PublicKey |-> PublicHalf(decodedSecretKey),
                          SecretKey |-> <<secret>>]
           IN  ImportChecks(address, public, signKP, [EmptyWallet EXCEPT !.Sk = secret])
    ELSE LET decodedSeed == b58cdecode(secret, "edsk2")
             signKP == SeedSignKP(decodedSeed)
         IN  ImportChecks(address, public, signKP,
                 [EmptyWallet EXCEPT !.Sk = b58cencode(signKP.SecretKey, "edsk")])

\* The seeds of the secrets ImportWallet is called with.
SeedBlocks == {Kdf(m, p)[1] : m \in Mnemonics, p \in Passwords}

\* The secrets ImportWallet is called with: secret keys (of a seed and of a public
\* key, its own or another seed's), seeds, and texts that are neither: the empty
\* text, one of three characters, a public key, a text too long by one.
SecretInputs ==
    {b58cencode(<<sd, PublicOf(t)>>, "edsk") : sd \in SeedBlocks, t \in SeedBlocks}
    \cup {b58cencode(<<sd>>, "edsk2") : sd \in SeedBlocks}
    \cup {NoStr,
          [head |-> "eds", len |-> TagLen - 1, prefix |-> "", payload |-> <<>>],
          b58cencode(<<PublicOf(Kdf("", "")[1])>>, "edpk"),
          [head |-> "edsk", len |-> SeedKeyLen + 1, prefix |-> "", payload |-> <<>>]}

\* The addresses and public keys ImportWallet is called with.
AddressInputs ==
    {b58cencode(GenericHash20(<<PublicOf(sd)>>), "tz1") : sd \in SeedBlocks} \cup {NoStr}
PublicInputs ==
    {b58cencode(<<PublicOf(sd)>>, "edpk") : sd \in SeedBlocks} \cup {NoStr}

\* A call of CreateWallet.
CreateWalletCall(mnemonic, password) ==
    /\ wpc = "idle"
    /\ wCreated' = CreateWallet(mnemonic, password)
    /\ wpc' = "created"
    /\ UNCHANGED <<wArgs, wRet>>
    /\ UNCHANGED <<servVars, batchVars>>

\* A call of ImportWallet.
ImportWalletCall(address, public, secret) ==
    /\ wpc = "idle"
    /\ wArgs' = [address |-> address, public |-> public, secret |-> secret]
    /\ wRet' = ImportWallet(address, public, secret)
    /\ wpc' = "imported"
    /\ UNCHANGED wCreated
    /\ UNCHANGED <<servVars, batchVars>>

\* A call of ImportWallet with the address, the public key and the secret key of
\* the wallet CreateWallet returned.
ImportCreated ==
    /\ wpc = "created"
    /\ wCreated.status = "ok"
    /\ wArgs' = [address |-> wCreated.wallet.Address, public |-> wCreated.wallet.Pk,
                 secret |-> wCreated.wallet.Sk]
    /\ wRet' = ImportWallet(wCreated.wallet.Address, wCreated.wallet.Pk,
                            wCreated.wallet.Sk)
    /\ wpc' = "reimported"
    /\ UNCHANGED wCreated
    /\ UNCHANGED <<servVars, batchVars>>

WalletInit == ServInit /\ BatchIdle /\ WalletIdle

WalletNext ==
    \/ \E m \in Mnemonics, p \in Passwords : CreateWalletCall(m, p)
    \/ \E a \in AddressInputs, pub \in PublicInputs, sec \in SecretInputs :
          ImportWalletCall(a, pub, sec)
    \/ ImportCreated

WalletSpec == WalletInit /\ [][WalletNext]_vars

\* ------------------------------------------------ claims about the server

\* The payouts of a log, in order.
Payouts(log) == [i \in DOMAIN log |-> log[i].payout]

IsPrefix(a, b) == Len(a) <= Len(b) /\ \A i \in DOMAIN a : a[i] = b[i]

\* This step enqueues exactly one Payout, for the cycle recorded before it, and
\* records cyc.
EnqueuesOne(cyc) ==
    /\ fifo' = Append(fifo, [cycle |-> currentCycle])
    /\ Len(enqLog') = Len(enqLog) + 1
    /\ enqLog'[Len(enqLog')].payout = [cycle |-> currentCycle]
    /\ currentCycle' = cyc

\* C1, as stated: every tick whose head query succeeds enqueues exactly one Payout,
\* for the recorded cycle, and records the observed cycle when the observed cycle is
\* greater than the recorded one, and otherwise enqueues nothing and leaves the
\* recorded cycle alone.
C1_TickEnqueuesOnRollover ==
    [][\A blk \in OkBlocks, newOk \in BOOLEAN :
         Tick(FALSE, blk, newOk) =>
            IF currentCycle < blk
              THEN EnqueuesOne(blk)
              ELSE UNCHANGED <<fifo, enqLog, currentCycle>>]_vars

\* C1, amended: the same, provided payout.New succeeds; when it fails the tick
\* enqueues nothing, leaves the recorded cycle alone and ends the process.
C1_TickEnqueuesOnRolloverIfBuilt ==
    [][\A blk \in OkBlocks, newOk \in BOOLEAN :
         Tick(FALSE, blk, newOk) =>
            IF currentCycle < blk
              THEN IF newOk
                     THEN EnqueuesOne(blk) /\ proc' = "running"
                     ELSE UNCHANGED <<fifo, enqLog, currentCycle>> /\ proc' = "exited"
              ELSE UNCHANGED <<fifo, enqLog, currentCycle, proc>>]_vars

\* C1's case: cycle 1 was observed, then 2: one Payout, for cycle 1, is enqueued.
C1_Witness ==
    /\ proc = "running"
    /\ observed = {1, 2}
    /\ currentCycle = 2
    /\ Payouts(enqLog) = <<[cycle |-> 1]>>

\* C2, as stated: a tick whose head query fails enqueues nothing, leaves the
\* recorded cycle alone and leaves the process running, whatever block came with
\* the error.
C2_FailedTickIsHarmless ==
    [][\A blk \in FailBlocks, newOk \in BOOLEAN :
         Tick(TRUE, blk, newOk) =>
            /\ UNCHANGED <<fifo, enqLog, currentCycle>>
            /\ proc' = "running"]_vars

\* C3, as stated: every enqueued Payout is for a cycle that a successful head query
\* returned before.
C3_PayoutsAreForObservedCycles ==
    \A i \in DOMAIN enqLog : enqLog[i].payout.cycle \in observed

\* C8: the worker handles at most one payout at a time; payouts are taken in the
\* order they were enqueued, and each is reported before the next one is taken.
C8_OneAtATimeInFifoOrder ==
    /\ Cardinality(processing) <= 1
    /\ IsPrefix(taken, Payouts(enqLog))
    /\ IsPrefix(Payouts(notified), taken)
    /\ Len(taken) <= Len(notified) + 1
    /\ processing = IF Len(taken) > Len(notified) THEN {taken[Len(taken)]} ELSE {}
    /\ Len(taken) + Len(fifo) = Len(enqLog)
    /\ \A i \in DOMAIN fifo : fifo[i] = enqLog[Len(taken) + i].payout

\* C8's case: two payouts were handled and reported, a third is being handled.
C8_Witness ==
    /\ Len(notified) = 2
    /\ Len(enqLog) = 3
    /\ processing = {enqLog[3].payout}

\* C9, as stated, in the form a finite run refutes: when the process has ended,
\* every enqueued Payout has had its outcome reported.
C9_NoPayoutLeftBehind ==
    proc = "exited" =>
        \A i \in DOMAIN enqLog :
            \E j \in DOMAIN notified : notified[j].payout = enqLog[i].payout

\* C9, amended: the outcomes reported are those of the enqueued payouts, one each in
\* enqueue order (none twice, none retried); and every enqueued payout is
\* eventually reported, also after a failed one, unless the process ends first.
C9_ReportedOnceUnlessProcessEnds ==
    /\ [](/\ IsPrefix(Payouts(notified), Payouts(enqLog))
          /\ \A j \in DOMAIN notified : notified[j].outcome \in Outcomes)
    /\ \A n \in 1..MaxCycle :
          (Len(enqLog) >= n) ~> (Len(notified) >= n \/ proc # "running")

\* C9's case: a payout failed and the payout enqueued after it was reported too.
C9_Witness ==
    /\ Len(notified) >= 2
    /\ notified[1].outcome = "failed"
    /\ notified[2].payout = enqLog[2].payout

\* C10: whatever the worker is doing, the polling loop can run a tick that enqueues
\* a Payout and be back at the top of the loop.
C10_EnqueueNeverBlocks ==
    (proc = "running" /\ pc = "loop" /\ currentCycle < MaxCycle) =>
        ENABLED (/\ Tick(FALSE, currentCycle + 1, TRUE)
                 /\ fifo' = Append(fifo, [cycle |-> currentCycle])
                 /\ pc' = "loop"
                 /\ proc' = "running")

\* C10's case: two payouts were enqueued while the worker was inside one payout,
\* which it still is.
C10_Witness ==
    /\ processing # {}
    /\ \E i, j \in DOMAIN enqLog :
          /\ i < j
          /\ enqLog[i].busy /\ enqLog[i].ntaken = Len(taken)
          /\ enqLog[j].busy /\ enqLog[j].ntaken = Len(taken)

\* C11: a rollover tick whose payout.New fails ends the process with nothing
\* enqueued and the recorded cycle as it was; and once the process has ended, no
\* tick, and nothing else, happens.
C11_FailedConstructionIsFatal ==
    /\ [][\A err \in BOOLEAN, blk \in Cycles :
            (Tick(err, blk, FALSE) /\ currentCycle < blk) =>
                /\ proc' = "exited"
                /\ UNCHANGED <<fifo, enqLog, currentCycle>>]_vars
    /\ [][proc # "exited"]_vars

\* C11's case: the process ended in the polling loop, after an earlier rollover
\* had enqueued a Payout.
C11_Witness ==
    /\ proc = "exited"
    /\ pc = "loop"
    /\ Len(enqLog) = 1
    /\ currentCycle = enqLog[1].payout.cycle + 1
    /\ currentCycle < MaxCycle

\* C17: the cycles of the Payouts enqueued are strictly increasing and below the
\* recorded cycle; the recorded cycle never decreases in the polling loop.
C17_EnqueuedCyclesIncrease ==
    /\ [](/\ \A i, j \in DOMAIN enqLog :
               i < j => enqLog[i].payout.cycle < enqLog[j].payout.cycle
          /\ \A i \in DOMAIN enqLog : enqLog[i].payout.cycle < currentCycle)
    /\ [][pc = "loop" => currentCycle' >= currentCycle]_vars

\* C17's case: Payouts for cycles 1 and 2 were enqueued, and a tick observed
\* cycle 0 while the recorded cycle was 1 or more.
C17_Witness ==
    /\ Payouts(enqLog) = <<[cycle |-> 1], [cycle |-> 2]>>
    /\ 0 \in observed

\* C18: the polling loop runs, and a Payout is enqueued, only after queue.Start().
C18_EnqueueAfterStart ==
    /\ pc = "loop" => started
    /\ enqLog # <<>> => started

\* C18's case: a Payout was enqueued.
C18_Witness ==
    /\ started
    /\ Len(enqLog) >= 1

\* -------------------------------------- claims about CreateBatchPayment

\* The requests of one kind, in order.
RequestsOf(kind) == SelectSeq(requests, LAMBDA r : r.kind = kind)

RECURSIVE Concat(_)
Concat(ss) == IF ss = <<>> THEN <<>> ELSE Head(ss) \o Concat(Tail(ss))

\* The TransactionOps of all forge requests so far, in order.
AllOps == Concat([i \in DOMAIN RequestsOf("forge") |-> RequestsOf("forge")[i].contents.Contents])

\* The payments with an amount above 0, in order.
Positive(ps) == SelectSeq(ps, LAMBDA p : p.Amount > 0)

\* The payload of a batch that passed its pre-apply step.
PayloadOf(r) ==
    Forged(r.contents) \o <<[rawsig |-> Forged(r.contents)]>>

\* The payloads of the batches that passed their pre-apply step, in batch order.
PassedPayloads ==
    LET passed == SelectSeq(requests, LAMBDA r : r.kind = "preapply" /\ r.ok)
    IN  [i \in DOMAIN passed |-> PayloadOf(passed[i])]

\* C4, as stated: whatever the outcome, the returned list holds exactly the
\* payloads of the batches that passed their pre-apply step, in batch order.
C4_ReturnsOnlyPassedPayloads ==
    bpc = "done" => operationSignatures = PassedPayloads

\* C5: the counters of the TransactionOps built so far, over all batches, are
\* c+1, c+2, ... in order, c being the counter fetched; a call that succeeds has
\* built one for each payment with an amount above 0.
C5_CountersRunOnAcrossBatches ==
    /\ \A i \in DOMAIN AllOps : AllOps[i].Counter = Itoa(onChain + i)
    /\ Len(AllOps) <= Len(Positive(payments))
    /\ (bpc = "done" /\ ~retErr) => Len(AllOps) = Len(Positive(payments))

\* C5's case: a call succeeded whose second batch holds a TransactionOp, after a
\* first batch with a skipped payment.
C5_Witness ==
    /\ bpc = "done" /\ ~retErr
    /\ Len(RequestsOf("forge")) >= 2
    /\ Len(RequestsOf("forge")[1].contents.Contents) = 1
    /\ Len(RequestsOf("forge")[2].contents.Contents) >= 1
    /\ onChain = MaxCounter

\* C6: forgeOperationBytes, given the counter start and a batch of N payments of
\* which k have an amount of 0 or below, builds N-k TransactionOps, one for each
\* payment with an amount above 0 in input order, with the counters start,
\* start+1, ..., and returns start+(N-k) as the next counter.
C6_ForgeSkipsWithoutCounter ==
    bpc = "sign" =>
        LET batch == batches[k]
            ops == operationContents.Contents
            pos == Positive(batch)
        IN  /\ Len(ops) = Len(batch) - Cardinality({i \in DOMAIN batch : batch[i].Amount <= 0})
            /\ Len(ops) = Len(pos)
            /\ \A i \in DOMAIN ops :
                  /\ ops[i].Destination = pos[i].Address
                  /\ ops[i].Amount = Itoa(pos[i].Amount)
                  /\ ops[i].Counter = Itoa(counter + i - 1)
            /\ newCounter = counter + Len(pos)

\* C6's case: a batch of two payments, the first skipped, forged with a counter
\* that earlier batches have advanced.
C6_Witness ==
    /\ bpc = "sign"
    /\ k = 2
    /\ Len(batches[k]) = 2
    /\ batches[k][1].Amount <= 0
    /\ batches[k][2].Amount > 0
    /\ counter > onChain + 1

\* C7: a request to the node that failed is the last request of the call, and the
\* call has returned an error.
C7_NoRequestAfterFailure ==
    \A i \in DOMAIN requests :
        ~requests[i].ok => (i = Len(requests) /\ bpc = "done" /\ retErr)

\* C7's case: the pre-apply of batch 1 failed with another batch left; the call
\* has returned without a request for batch 2.
C7_Witness ==
    /\ bpc = "done" /\ retErr
    /\ Len(batches) >= 2
    /\ Len(requests) = 4
    /\ requests[4].kind = "preapply" /\ ~requests[4].ok

\* C15: the head and the counter are each fetched once, as the first two
\* requests of the call, and every forge and pre-apply request carries the hash
\* of that head as its branch.
C15_OneHeadOneBranch ==
    /\ Len(RequestsOf("head")) <= 1
    /\ Len(RequestsOf("counter")) <= 1
    /\ \A i \in DOMAIN requests :
          /\ requests[i].kind = "head" => i = 1
          /\ requests[i].kind = "counter" => i = 2
          /\ requests[i].kind \in {"forge", "preapply"} =>
                /\ i > 2
                /\ requests[1].kind = "head" /\ requests[1].ok
                /\ requests[2].kind = "counter" /\ requests[2].ok
                /\ requests[i].branch = requests[1].branch
                /\ requests[i].contents.Branch = requests[1].branch

\* C15's case: a call that forged and pre-applied three batches.
C15_Witness ==
    /\ bpc = "done" /\ ~retErr
    /\ Len(RequestsOf("forge")) = 3
    /\ Len(RequestsOf("preapply")) = 3
    /\ blockHead = "BLb"

\* C16: when every request of a call succeeds, the destinations of the
\* TransactionOps of its forge requests, in order, are the destinations of the
\* payments with an amount above 0, in input order, and no forge request carries
\* more than BatchSize operations.
C16_BatchingKeepsPayments ==
    (bpc = "done" /\ ~retErr) =>
        /\ [i \in DOMAIN AllOps |-> AllOps[i].Destination]
             = [i \in DOMAIN Positive(payments) |-> Positive(payments)[i].Address]
        /\ \A i \in DOMAIN RequestsOf("forge") :
              Len(RequestsOf("forge")[i].contents.Contents) <= BatchSize

\* C16's case: a call succeeded for five payments to both destinations, three of
\* them with an amount above 0, in three batches.
C16_Witness ==
    /\ bpc = "done" /\ ~retErr
    /\ Len(payments) = 5
    /\ Len(RequestsOf("forge")) = 3
    /\ [i \in DOMAIN AllOps |-> AllOps[i].Destination] = <<"tz1b", "tz1a", "tz1b">>

\* ------------------------------------------------ claims about the wallets

\* The public key a secret stands for: the second half of a secret key, the public
\* key of a seed.
PublicKeyOfSecret(secret) ==
    IF secret.prefix = "edsk" THEN <<secret.payload[2]>>
    ELSE <<PublicOf(secret.payload[1])>>

\* The address and the public key are those of the secret.
Corresponds(address, public, secret) ==
    /\ \/ secret.prefix = "edsk" /\ Len(secret.payload) = 2
       \/ secret.prefix = "edsk2" /\ Len(secret.payload) = 1
    /\ public = [head |-> "edpk", len |-> SeedKeyLen, prefix |-> "edpk",
                 payload |-> PublicKeyOfSecret(secret)]
    /\ address.prefix = "tz1"
    /\ address.payload = << <<"h20">> \o PublicKeyOfSecret(secret)[1] >>

\* C12, as stated: ImportWallet returns a wallet only when the address and the
\* public key given are those of the secret, returns an error for every other
\* triple, and the wallet it returns has the address of its public key.
C12_ImportChecksKeys ==
    wpc \in {"imported", "reimported"} =>
        IF Corresponds(wArgs.address, wArgs.public, wArgs.secret)
          THEN wRet.status = "ok" =>
                  /\ wRet.wallet.Pk = wArgs.public
                  /\ wRet.wallet.Address = wArgs.address
                  /\ wRet.wallet.Address.payload
                        = << <<"h20">> \o wRet.wallet.Pk.payload[1] >>
          ELSE wRet.status = "error"

\* C13, as stated: for a secret that does not start with the tag, or whose length
\* is neither of the two accepted, ImportWallet returns the format error.
C13_BadSecretIsFormatError ==
    wpc \in {"imported", "reimported"} =>
        ((wArgs.secret.head # "edsk" \/ wArgs.secret.len \notin {FullKeyLen, SeedKeyLen})
            => (wRet.status = "error" /\ wRet.err = "format"))

\* C14: CreateWallet succeeds, and ImportWallet, given the address, the public key
\* and the secret key of the wallet it returned, returns a wallet with these.
C14_CreateImportRoundTrip ==
    /\ wpc = "created" => wCreated.status = "ok"
    /\ wpc = "reimported" =>
          /\ wRet.status = "ok"
          /\ wRet.wallet.Address = wCreated.wallet.Address
          /\ wRet.wallet.Pk = wCreated.wallet.Pk
          /\ wRet.wallet.Sk = wCreated.wallet.Sk

\* C14's case: the wallet of the empty mnemonic and a password was created and
\* imported again.
C14_Witness ==
    /\ wpc = "reimported"
    /\ wCreated.wallet.Mnemonic = ""
    /\ wCreated.wallet.Seed = Kdf("", "pw")
    /\ wRet.wallet.Sk.len = FullKeyLen

====
